---- MODULE Spec2Model ----
(***************************************************************************)
(* Model of the retrieval and chunking engine of the audit assistant:      *)
(* VectorDB (src/src/vectordb.py), the wrapper around a Chroma collection  *)
(* that chunks documents, derives chunk ids, upserts them, and answers     *)
(* search / is_empty / export_all_documents.                               *)
(*                                                                         *)
(* Text is a sequence of one-character strings.  A Python dict with string *)
(* keys is a set of <<key, value>> pairs with at most one pair per key.    *)
(* The Chroma collection and the LangChain splitter are libraries the      *)
(* source calls; they are modelled by what the calls do (Chroma >= 0.4,    *)
(* langchain RecursiveCharacterTextSplitter).                              *)
(***************************************************************************)
EXTENDS Integers, Sequences, FiniteSets, TLC

(***************************************************************************)
(* Python helpers                                                          *)
(***************************************************************************)

\* Characters of document text in the model.
Alphabet == <<"a", "b", " ", ".", "\n">>

\* Characters str.strip() removes.
Whitespace == {" ", "\n"}

Min(a, b) == IF a < b THEN a ELSE b

\* range of a sequence
Range(s) == {s[k] : k \in 1..Len(s)}

\* s[i:] with a 1-based i
DropTo(s, i) == SubSeq(s, i, Len(s))

\* "".join(list)
RECURSIVE Join(_)
Join(parts) ==
    IF parts = <<>> THEN <<>> ELSE Head(parts) \o Join(Tail(parts))

\* str.strip()
RECURSIVE LStrip(_)
LStrip(s) ==
    IF s # <<>> /\ Head(s) \in Whitespace THEN LStrip(Tail(s)) ELSE s

RECURSIVE RStrip(_)
RStrip(s) ==
    IF s # <<>> /\ s[Len(s)] \in Whitespace
    THEN RStrip(SubSeq(s, 1, Len(s) - 1))
    ELSE s

Strip(s) == RStrip(LStrip(s))

\* str(n) for n >= 0: the decimal digits of n
DigitChar(d) == <<"0", "1", "2", "3", "4", "5", "6", "7", "8", "9">>[d + 1]

RECURSIVE Str(_)
Str(n) ==
    IF n < 10 THEN <<DigitChar(n)>> ELSE Str(n \div 10) \o <<DigitChar(n % 10)>>

\* dict.get(key, default)
DictHas(d, key) == \E p \in d : p[1] = key

DictGet(d, key, default) ==
    IF DictHas(d, key) THEN (CHOOSE p \in d : p[1] = key)[2] ELSE default

(***************************************************************************)
(* chunk_text: RecursiveCharacterTextSplitter(chunk_size, chunk_overlap,   *)
(* length_function=len, separators=["\n\n", "\n", ".", " ", ""],           *)
(* keep_separator=True).split_text(text)                                   *)
(***************************************************************************)

Separators == << <<"\n", "\n">>, <<"\n">>, <<".">>, <<" ">>, <<>> >>

\* does sep occur in text at position i
MatchAt(text, sep, i) ==
    /\ i + Len(sep) - 1 <= Len(text)
    /\ SubSeq(text, i, i + Len(sep) - 1) = sep

\* re.search(re.escape(sep), text) for a non-empty sep
Contains(text, sep) == \E i \in 1..Len(text) : MatchAt(text, sep, i)

\* re.split("(sep)", text) with each separator glued to the front of the
\* piece that follows it (keep_separator=True): the text is cut before every
\* non-overlapping occurrence of sep, scanning from the left.
RECURSIVE CutBefore(_, _, _, _)
CutBefore(text, sep, i, start) ==
    IF i + Len(sep) - 1 > Len(text)
    THEN <<SubSeq(text, start, Len(text))>>
    ELSE IF MatchAt(text, sep, i)
         THEN <<SubSeq(text, start, i - 1)>> \o CutBefore(text, sep, i + Len(sep), i)
         ELSE CutBefore(text, sep, i + 1, start)

\* _split_text_with_regex(text, separator, keep_separator=True):
\* list(text) for the empty separator; empty pieces are dropped.
SplitWithRegex(text, sep) ==
    LET raw == IF sep = <<>>
               THEN [k \in 1..Len(text) |-> <<text[k]>>]
               ELSE CutBefore(text, sep, 1, 1)
    IN  SelectSeq(raw, LAMBDA s : s # <<>>)

\* TextSplitter._join_docs with separator "": join, strip, None when empty.
\* None is the empty list of chunks here: the caller appends only a non-None doc.
JoinDocs(docs) ==
    LET text == Strip(Join(docs))
    IN  IF text = <<>> THEN <<>> ELSE <<text>>

TotalLen(docs) == Len(Join(docs))

\* the while loop of _merge_splits: pop from the front of current_doc while the
\* running total exceeds the overlap, or the next split still does not fit
RECURSIVE PopFront(_, _, _, _)
PopFront(current, dlen, size, overlap) ==
    LET total == TotalLen(current)
    IN  IF total > overlap \/ (total + dlen > size /\ total > 0)
        THEN PopFront(Tail(current), dlen, size, overlap)
        ELSE current

\* TextSplitter._merge_splits(splits, separator="")
RECURSIVE MergeFrom(_, _, _, _, _, _)
MergeFrom(splits, k, current, docs, size, overlap) ==
    IF k > Len(splits)
    THEN docs \o JoinDocs(current)
    ELSE LET d == splits[k]
             full == TotalLen(current) + Len(d) > size /\ Len(current) > 0
             docs2 == IF full THEN docs \o JoinDocs(current) ELSE docs
             cur2 == IF full THEN PopFront(current, Len(d), size, overlap) ELSE current
         IN  MergeFrom(splits, k + 1, Append(cur2, d), docs2, size, overlap)

MergeSplits(splits, size, overlap) == MergeFrom(splits, 1, <<>>, <<>>, size, overlap)

\* index of the separator _split_text picks: the first one that is "" or
\* occurs in the text
RECURSIVE PickSeparator(_, _, _)
PickSeparator(text, seps, i) ==
    IF i >= Len(seps) \/ seps[i] = <<>> \/ Contains(text, seps[i])
    THEN i
    ELSE PickSeparator(text, seps, i + 1)

\* RecursiveCharacterTextSplitter._split_text(text, separators)
RECURSIVE SplitText(_, _, _, _)
RECURSIVE SplitLoop(_, _, _, _, _, _, _)
SplitLoop(splits, k, good, final, newseps, size, overlap) ==
    LET flushed == IF good # <<>>
                   THEN final \o MergeSplits(good, size, overlap)
                   ELSE final
    IN  IF k > Len(splits)
        THEN flushed
        ELSE IF Len(splits[k]) < size
             THEN SplitLoop(splits, k + 1, Append(good, splits[k]), final,
                            newseps, size, overlap)
             ELSE SplitLoop(splits, k + 1, <<>>,
                            flushed \o (IF newseps = <<>>
                                        THEN <<splits[k]>>
                                        ELSE SplitText(splits[k], newseps, size, overlap)),
                            newseps, size, overlap)

SplitText(text, seps, size, overlap) ==
    LET i == PickSeparator(text, seps, 1)
        sep == seps[i]
        newseps == IF sep = <<>> THEN <<>> ELSE DropTo(seps, i + 1)
    IN  SplitLoop(SplitWithRegex(text, sep), 1, <<>>, <<>>, newseps, size, overlap)

\* VectorDB.chunk_text: the splitter's constructor raises ValueError when
\* chunk_overlap > chunk_size; otherwise the chunks of split_text.
ChunkTextRaises(size, overlap) == overlap > size

chunk_text(text, size, overlap) ==
    IF ChunkTextRaises(size, overlap)
    THEN [raised |-> TRUE, chunks |-> <<>>]
    ELSE [raised |-> FALSE, chunks |-> SplitText(text, Separators, size, overlap)]

(***************************************************************************)
(* Chunk ids (add_documents, line 113)                                     *)
(***************************************************************************)

\* position of a character in Alphabet
CharCode(c) == CHOOSE k \in 1..Len(Alphabet) : Alphabet[k] = c

\* length of hashlib.md5(...).hexdigest()
MD5HexLen == 32

HexChar(d) ==
    <<"0", "1", "2", "3", "4", "5", "6", "7",
      "8", "9", "a", "b", "c", "d", "e", "f">>[d + 1]

\* a number as exactly w hexadecimal digits
RECURSIVE HexDigits(_, _)
HexDigits(n, w) ==
    IF w = 0 THEN <<>> ELSE HexDigits(n \div 16, w - 1) \o <<HexChar(n % 16)>>

\* the text read as a numeral in base Len(Alphabet) + 1
RECURSIVE TextCode(_)
TextCode(text) ==
    IF text = <<>>
    THEN 0
    ELSE TextCode(SubSeq(text, 1, Len(text) - 1)) * (Len(Alphabet) + 1)
         + CharCode(text[Len(text)])

\* hashlib.md5(chunk.encode('utf-8')).hexdigest(): a digest of fixed width over
\* the hexadecimal digits, a function of the chunk text alone.  MD5 has no
\* collision among the short texts of the model, so the digest is modelled by
\* a collision-free code of the text.
MD5Hex(chunk) == HexDigits(TextCode(chunk), MD5HexLen)

\* ChunkId without the filename
ChunkIdNoFilename(metadata, i, chunk) ==
    Str(i) \o <<"-">> \o Str(Len(chunk)) \o <<"-">> \o MD5Hex(chunk)

\* f"{metadata.get('filename','')}-{i}-{len(chunk)}-{md5(chunk)}"
ChunkId(metadata, i, chunk) ==
    DictGet(metadata, "filename", <<>>) \o <<"-">> \o Str(i) \o <<"-">>
        \o Str(Len(chunk)) \o <<"-">> \o MD5Hex(chunk)

(***************************************************************************)
(* Inputs of the model.  A document is a dict that may lack the 'content'  *)
(* and 'metadata' keys.                                                    *)
(***************************************************************************)

\* the (chunk_size, chunk_overlap) pairs a VectorDB is constructed with: an
\* overlap above the size, one-character chunks, no overlap, an overlap, a
\* size that holds a whole document
Configs == {<<1, 2>>, <<1, 0>>, <<2, 0>>, <<2, 1>>, <<3, 1>>}
ChunkSizes == {c[1] : c \in Configs}
ChunkOverlaps == {c[2] : c \in Configs}
\* most documents in one add_documents call
MaxBatch == 2
\* largest n_results of a search
MaxNResults == 2
\* distance levels of a query result
DistanceLevels == {0, 1}

TypeTxt == <<"t", "x", "t">>
TypePdf == <<"p", "d", "f">>

MetaX == {<<"filename", <<"x">>>>, <<"type", TypeTxt>>}
MetaXPdf == {<<"filename", <<"x">>>>, <<"type", TypePdf>>}
MetaXDash == {<<"filename", <<"x", "-", "0">>>>, <<"type", TypeTxt>>}
MetaNoFilename == {<<"type", TypeTxt>>}

Doc(content, metadata) ==
    [metadata |-> metadata, content |-> content,
     has_content |-> TRUE, has_metadata |-> TRUE]

\* {"content": ...} without a metadata key
DocNoMetadata(content) ==
    [metadata |-> {}, content |-> content,
     has_content |-> TRUE, has_metadata |-> FALSE]

\* {"metadata": ...} without a content key
DocNoContent(metadata) ==
    [metadata |-> metadata, content |-> <<>>,
     has_content |-> FALSE, has_metadata |-> TRUE]

TextAB == <<"a", " ", "b">>
TextB == <<"b">>

Docs ==
    { Doc(TextAB, MetaX),          \* a file
      Doc(TextB, MetaX),           \* the same file, edited and shrunk
      Doc(TextAB, MetaXPdf),       \* same filename and text, other metadata
      DocNoMetadata(TextAB),
      DocNoContent(MetaX) }

Batches == UNION {[1..n -> Docs] : n \in 0..MaxBatch}

Queries == {<<>>, <<"a">>}

(***************************************************************************)
(* add_documents                                                           *)
(***************************************************************************)

\* doc.get('metadata', {})
DocMetadata(doc) == IF doc.has_metadata THEN doc.metadata ELSE {}

\* lines 106-114 for one document: the (text, metadata, id) triples of its
\* chunks, the ordinal i counted from 0 as enumerate does
DocTriples(doc, size, overlap) ==
    LET chunks == chunk_text(doc.content, size, overlap).chunks
    IN  [k \in 1..Len(chunks) |->
            [metadata |-> DocMetadata(doc),
             id |-> ChunkId(DocMetadata(doc), k - 1, chunks[k]),
             document |-> chunks[k]]]

\* doc['content'] raises KeyError, or chunk_text raises ValueError
DocRaises(doc, size, overlap) ==
    \/ ~doc.has_content
    \/ ChunkTextRaises(size, overlap)

\* DocTriples of every document of the model, computed once
TriplesMemo ==
    [size \in ChunkSizes |->
        [overlap \in ChunkOverlaps |->
            [doc \in Docs |->
                IF DocRaises(doc, size, overlap)
                THEN <<>>
                ELSE DocTriples(doc, size, overlap)]]]

\* the loop of lines 105-114 over the whole batch: all_chunks, all_metadatas
\* and all_ids as one list of triples; the first failing document ends the call
RECURSIVE AllTriples(_, _, _)
AllTriples(documents, size, overlap) ==
    IF documents = <<>>
    THEN <<>>
    ELSE TriplesMemo[size][overlap][Head(documents)]
         \o AllTriples(Tail(documents), size, overlap)

BatchRaises(documents, size, overlap) ==
    \E k \in 1..Len(documents) : DocRaises(documents[k], size, overlap)

(***************************************************************************)
(* The Chroma collection: a set of records with pairwise distinct ids      *)
(***************************************************************************)

Ids(coll) == {r.id : r \in coll}

TripleIds(triples) == {triples[k].id : k \in 1..Len(triples)}

\* validate_ids: the ids of one request must be unique (DuplicateIDError)
HasDuplicateIds(triples) ==
    \E j, k \in 1..Len(triples) : j # k /\ triples[j].id = triples[k].id

\* validate_metadata: an empty metadata dict is rejected (ValueError)
HasEmptyMetadata(triples) ==
    \E k \in 1..Len(triples) : triples[k].metadata = {}

RequestRejected(triples) == HasDuplicateIds(triples) \/ HasEmptyMetadata(triples)

\* CollectionUpsert as a reset of the collection to the request's records
CollectionUpsertReplaceAll(coll, triples) ==
    IF RequestRejected(triples)
    THEN [raised |-> TRUE, collection |-> coll]
    ELSE [raised |-> FALSE, collection |-> Range(triples)]

\* CollectionUpsert that first deletes the records of the request's filenames
CollectionUpsertDropFile(coll, triples) ==
    IF RequestRejected(triples)
    THEN [raised |-> TRUE, collection |-> coll]
    ELSE LET names == {DictGet(triples[k].metadata, "filename", <<>>) :
                          k \in 1..Len(triples)}
         IN  [raised |-> FALSE,
              collection |-> {r \in coll :
                                 DictGet(r.metadata, "filename", <<>>) \notin names}
                             \cup Range(triples)]

\* collection.upsert(documents, metadatas, ids), lines 119-123: a record whose
\* id exists is replaced, the others are inserted
CollectionUpsert(coll, triples) ==
    IF RequestRejected(triples)
    THEN [raised |-> TRUE, collection |-> coll]
    ELSE [raised |-> FALSE,
          collection |-> {r \in coll : r.id \notin TripleIds(triples)}
                         \cup Range(triples)]

\* collection.add(documents, metadatas, ids), lines 125-129: the fallback of a
\* collection without upsert; an id that already exists is an error
CollectionAdd(coll, triples) ==
    IF RequestRejected(triples) \/ TripleIds(triples) \cap Ids(coll) # {}
    THEN [raised |-> TRUE, collection |-> coll]
    ELSE [raised |-> FALSE, collection |-> coll \cup Range(triples)]

\* add_documents with ids that are fresh on every call (a counter prefix)
add_documents_fresh_ids(coll, upsert, size, overlap, documents) ==
    IF BatchRaises(documents, size, overlap)
    THEN [raised |-> TRUE, collection |-> coll]
    ELSE LET triples == AllTriples(documents, size, overlap)
             fresh == [k \in 1..Len(triples) |->
                          [triples[k] EXCEPT
                              !.id = Str(Cardinality(coll) + k) \o <<"-">> \o @]]
         IN  IF triples = <<>>
             THEN [raised |-> FALSE, collection |-> coll]
             ELSE IF upsert
                  THEN CollectionUpsert(coll, fresh)
                  ELSE CollectionAdd(coll, fresh)

\* add_documents with one write per document instead of one per call
RECURSIVE add_documents_per_document(_, _, _, _, _)
add_documents_per_document(coll, upsert, size, overlap, documents) ==
    IF documents = <<>>
    THEN [raised |-> FALSE, collection |-> coll]
    ELSE IF DocRaises(Head(documents), size, overlap)
         THEN [raised |-> TRUE, collection |-> coll]
         ELSE LET triples == TriplesMemo[size][overlap][Head(documents)]
                  r == IF triples = <<>>
                       THEN [raised |-> FALSE, collection |-> coll]
                       ELSE IF upsert
                            THEN CollectionUpsert(coll, triples)
                            ELSE CollectionAdd(coll, triples)
              IN  IF r.raised
                  THEN r
                  ELSE add_documents_per_document(r.collection, upsert, size,
                                                  overlap, Tail(documents))

\* VectorDB.add_documents(documents)
add_documents(coll, upsert, size, overlap, documents) ==
    IF BatchRaises(documents, size, overlap)
    THEN [raised |-> TRUE, collection |-> coll]
    ELSE LET triples == AllTriples(documents, size, overlap)
         IN  IF triples = <<>>
             THEN [raised |-> FALSE, collection |-> coll]
             ELSE IF upsert
                  THEN CollectionUpsert(coll, triples)
                  ELSE CollectionAdd(coll, triples)

(***************************************************************************)
(* Reads of the collection                                                 *)
(***************************************************************************)

\* collection.count()
CollectionCount(coll) == Cardinality(coll)

\* the values validate_include accepts for collection.get
GetIncludes == {"documents", "embeddings", "metadatas", "uris", "data"}

\* collection.get(include=...): every record, in an order the collection
\* chooses; an include item outside GetIncludes raises ValueError.  The result
\* is the set of the orders the call may return.
Orders(coll) ==
    {s \in [1..Cardinality(coll) -> coll] :
        \A j, k \in 1..Cardinality(coll) : j # k => s[j] # s[k]}

CollectionGet(coll, include) ==
    IF include \subseteq GetIncludes
    THEN {[raised |-> FALSE, records |-> s] : s \in Orders(coll)}
    ELSE {[raised |-> TRUE, records |-> <<>>]}

\* distances of a query result: non-decreasing, one per hit
Distances(k, levels) ==
    {d \in [1..k -> levels] : \A j \in 1..k : j < k => d[j] <= d[j + 1]}

\* CollectionQuery that ignores n_results and returns every record
CollectionQueryAll(coll, query, n, levels) ==
    IF n <= 0
    THEN {[raised |-> TRUE, hits |-> <<>>, distances |-> <<>>]}
    ELSE {[raised |-> FALSE, hits |-> h, distances |-> d] :
             h \in Orders(coll), d \in Distances(CollectionCount(coll), levels)}

\* collection.query(query_texts=[query], n_results=n): validate_n_results
\* rejects n <= 0; otherwise the min(n, count) nearest records, nearest first.
\* The embedding is opaque: any choice of that many distinct records, with any
\* non-decreasing distances, is a result the call may return.
CollectionQuery(coll, query, n, levels) ==
    IF n <= 0
    THEN {[raised |-> TRUE, hits |-> <<>>, distances |-> <<>>]}
    ELSE LET k == Min(n, CollectionCount(coll))
         IN  {[raised |-> FALSE, hits |-> h, distances |-> d] :
                 h \in {s \in [1..k -> coll] :
                           \A i, j \in 1..k : i # j => s[i] # s[j]},
                 d \in Distances(k, levels)}

\* the first (only) row of each list of a query result, lines 180-185
SearchResult(r) ==
    [raised |-> r.raised,
     value |-> [documents |-> [k \in 1..Len(r.hits) |-> r.hits[k].document],
                distances |-> r.distances,
                metadatas |-> [k \in 1..Len(r.hits) |-> r.hits[k].metadata],
                ids |-> [k \in 1..Len(r.hits) |-> r.hits[k].id]]]

\* search that takes n_results <= 0 to mean "every record"
search_nonpositive_all(coll, query, n_results, levels) ==
    {SearchResult(r) :
        r \in CollectionQuery(coll, query,
                              IF n_results <= 0
                              THEN CollectionCount(coll) + 1
                              ELSE n_results,
                              levels)}

\* VectorDB.search(query, n_results)
search(coll, query, n_results, levels) ==
    {SearchResult(r) : r \in CollectionQuery(coll, query, n_results, levels)}

\* VectorDB.is_empty(): count() == 0, and when count() raises the fallback
\* len(collection.get(include=["ids"]).get('ids', [])) == 0
is_empty(coll, count_raises) ==
    IF ~count_raises
    THEN {[raised |-> FALSE, value |-> CollectionCount(coll) = 0]}
    ELSE {[raised |-> r.raised, value |-> Len(r.records) = 0] :
             r \in CollectionGet(coll, {"ids"})}

\* VectorDB.export_all_documents(): one {content, metadata, id} per record
export_all_documents(coll) ==
    {[raised |-> r.raised,
      value |-> [k \in 1..Len(r.records) |->
                    [metadata |-> r.records[k].metadata,
                     content |-> r.records[k].document,
                     id |-> r.records[k].id]]] :
        r \in CollectionGet(coll, {"metadatas", "documents"})}

(***************************************************************************)
(* State                                                                   *)
(***************************************************************************)

VARIABLES
    chunk_size,     \* self.chunk_size
    chunk_overlap,  \* self.chunk_overlap
    has_upsert,     \* hasattr(self.collection, 'upsert')
    collection,     \* the records of self.collection
    ret,            \* the last call: its arguments and what it returned
    before,         \* history: the collection when the last call began
    repeated,       \* history: the last call was add_documents with the same
                    \* argument as the add_documents call right before it
    written,        \* history: <<id, text>> of every chunk submitted by an
                    \* add_documents call that returned
    probe,          \* two chunk keys and the ids computed for them (SpecIds)
    chunked,        \* a text and the chunks chunk_text made of it (SpecChunk)
    chat_messages,  \* the rows of the table chat_messages, in insertion order
    calls,          \* the requests to /api/query and where each one stands
    loaded,         \* the last load_conversation: its key, what it returned,
                    \* and (history) the messages saved for the key until then
    earlier         \* history: the rows the table held when the application
                    \* started, left in the database file by earlier runs

vars == <<chunk_size, chunk_overlap, has_upsert, collection, ret, before,
          repeated, written, probe, chunked, chat_messages, calls, loaded,
          earlier>>

chat == <<chat_messages, calls, loaded, earlier>>

config == <<chunk_size, chunk_overlap, has_upsert>>

\* the result of a search that found nothing
NoHits == [documents |-> <<>>, distances |-> <<>>, metadatas |-> <<>>, ids |-> <<>>]

\* The last call: its arguments, whether it raised, and what it returned: found
\* is the dict search returns, exported the list export_all_documents returns,
\* empty the bool is_empty returns; a call of another kind leaves the field at
\* NoHits, <<>> or FALSE.
Call(op, raised, documents, query, n_results, found, exported, empty) ==
    [raised |-> raised, documents |-> documents, query |-> query,
     n_results |-> n_results, op |-> op, found |-> found,
     exported |-> exported, empty |-> empty]

NoKey == [chunk |-> <<>>, metadata |-> {}, ordinal |-> 0]

NoProbe == [a |-> NoKey, b |-> NoKey, op |-> "none", id_a |-> <<>>, id_b |-> <<>>]

\* most requests to /api/query in one run
MaxCalls == 2

\* a request that has not arrived yet
NoCall == [found |-> NoHits, question |-> <<>>, user_id |-> "u1",
           session_id |-> "s1", pc |-> "idle"]

NoLoaded == [user_id |-> "u1", session_id |-> "s1", called |-> FALSE,
             messages |-> <<>>, saved |-> <<>>]

NoChunked == [text |-> <<>>, raised |-> FALSE, chunks |-> <<>>, called |-> FALSE]

\* VectorDB.__init__: a new in-memory collection
InitVectorDB ==
    /\ \E c \in Configs : chunk_size = c[1] /\ chunk_overlap = c[2]
    /\ has_upsert \in BOOLEAN
    /\ collection = {}
    /\ ret = Call("init", FALSE, <<>>, <<>>, 0, NoHits, <<>>, FALSE)
    /\ before = {}
    /\ repeated = FALSE
    /\ written = {}
    /\ probe = NoProbe
    /\ chunked = NoChunked
    /\ calls = [c \in 1..MaxCalls |-> NoCall]
    /\ loaded = NoLoaded

\* a VectorDB on its own: no chat database is opened
Init ==
    /\ InitVectorDB
    /\ chat_messages = <<>>
    /\ earlier = <<>>

\* the <<id, text>> pairs add_documents submits for a batch it can chunk
Submitted(documents, size, overlap) ==
    IF BatchRaises(documents, size, overlap)
    THEN {}
    ELSE {<<t.id, t.document>> : t \in Range(AllTriples(documents, size, overlap))}

AddDocuments ==
    \E documents \in Batches :
        LET r == add_documents(collection, has_upsert, chunk_size,
                               chunk_overlap, documents)
        IN  /\ collection' = r.collection
            /\ ret' = Call("add_documents", r.raised, documents, <<>>, 0,
                            NoHits, <<>>, FALSE)
            /\ before' = collection
            /\ repeated' = (ret.op = "add_documents" /\ ret.documents = documents)
            /\ written' = IF r.raised
                          THEN written
                          ELSE written \cup Submitted(documents, chunk_size,
                                                      chunk_overlap)
            /\ UNCHANGED <<config, probe, chunked, chat>>

\* a call that only reads the collection
Read ==
    /\ before' = collection
    /\ repeated' = FALSE
    /\ UNCHANGED <<config, collection, written, probe, chunked, chat>>

Search ==
    \E query \in Queries, n \in -1..MaxNResults :
        \E r \in search(collection, query, n, DistanceLevels) :
            /\ ret' = Call("search", r.raised, <<>>, query, n,
                            r.value, <<>>, FALSE)
            /\ Read

IsEmpty ==
    \E count_raises \in BOOLEAN :
        \E r \in is_empty(collection, count_raises) :
            /\ ret' = Call("is_empty", r.raised, <<>>, <<>>, 0,
                            NoHits, <<>>, r.value)
            /\ Read

ExportAll ==
    \E r \in export_all_documents(collection) :
        /\ ret' = Call("export_all_documents", r.raised, <<>>, <<>>, 0,
                        NoHits, r.value, FALSE)
        /\ Read

Next == AddDocuments \/ Search \/ IsEmpty \/ ExportAll

Spec == Init /\ [][Next]_vars

(***************************************************************************)
(* The id function on its own: two chunk keys (metadata, ordinal, text)    *)
(* and the ids line 113 computes for them                                  *)
(***************************************************************************)

\* largest chunk ordinal and longest chunk text of a key
MaxOrdinal == 1
MaxKeyLen == 1

MetaEmptyFilename == {<<"filename", <<>>>>}

KeyMetas == {MetaX, MetaXPdf, MetaXDash, MetaNoFilename, MetaEmptyFilename, {}}

KeyChunks ==
    UNION {[1..n -> Range(Alphabet)] : n \in 1..MaxKeyLen}

ChunkKeys ==
    {[chunk |-> c, metadata |-> m, ordinal |-> i] :
        m \in KeyMetas, i \in 0..MaxOrdinal, c \in KeyChunks}

KeyFilename(key) == DictGet(key.metadata, "filename", <<>>)

InitIds ==
    /\ Init
    /\ chunk_size = 2
    /\ chunk_overlap = 0
    /\ has_upsert

ComputeIds ==
    /\ probe.op = "none"
    /\ \E a, b \in ChunkKeys :
          probe' = [a |-> a, b |-> b, op |-> "ids",
                    id_a |-> ChunkId(a.metadata, a.ordinal, a.chunk),
                    id_b |-> ChunkId(b.metadata, b.ordinal, b.chunk)]
    /\ UNCHANGED <<config, collection, ret, before, repeated, written, chunked,
                   chat>>

NextIds == ComputeIds

SpecIds == InitIds /\ [][NextIds]_vars

(***************************************************************************)
(* The chat history (src/src/app.py): the table chat_messages, one row per  *)
(* message in insertion order, and RAGApplication.query, which the Flask    *)
(* handler /api/query runs once per request, requests running concurrently  *)
(***************************************************************************)

\* the roles of lines 167 and 177
RoleUser == "user"
RoleAssistant == "assistant"

\* save_message with the session id of another memory object
save_message_other_session(table, user_id, session_id, role, content, now) ==
    Append(table, [content |-> content, user_id |-> user_id,
                   session_id |-> "s0", role |-> role, timestamp |-> now,
                   rowid |-> Len(table) + 1])

\* DatabaseChatMemory.save_message: INSERT one row; the column id is
\* AUTOINCREMENT, timestamp is datetime.now() at the call
save_message(table, user_id, session_id, role, content, now) ==
    Append(table, [content |-> content, user_id |-> user_id,
                   session_id |-> session_id, role |-> role, timestamp |-> now,
                   rowid |-> Len(table) + 1])

\* WHERE user_id = ? AND session_id = ?
Matching(table, user_id, session_id) ==
    {k \in 1..Len(table) : /\ table[k].user_id = user_id
                           /\ table[k].session_id = session_id}

\* ORDER BY timestamp ASC: the rows by ascending timestamp; SQL leaves the
\* order of rows with equal timestamps open
RECURSIVE TimestampOrders(_, _)
TimestampOrders(table, rows) ==
    IF rows = {} THEN {<<>>}
    ELSE LET least == {k \in rows : \A j \in rows :
                          table[k].timestamp <= table[j].timestamp}
         IN  UNION {{<<k>> \o o : o \in TimestampOrders(table, rows \ {k})} :
                       k \in least}

\* {"role": row[0], "content": row[1]}
MessageOf(row) == [content |-> row.content, role |-> row.role]

\* DatabaseChatMemory.load_conversation: the lists the SELECT may return
load_conversation(table, user_id, session_id) ==
    {[i \in 1..Len(o) |-> MessageOf(table[o[i]])] :
        o \in TimestampOrders(table, Matching(table, user_id, session_id))}

\* (history) the messages saved for a key, in the order of their saving
SavedFor(table, user_id, session_id) ==
    LET Test(row) == row.user_id = user_id /\ row.session_id = session_id
        rows == SelectSeq(table, Test)
    IN  [i \in 1..Len(rows) |-> MessageOf(rows[i])]

\* the user and session ids of the requests, as <<user_id, session_id>>
Keys == {<<"u1", "s1">>, <<"u2", "s1">>}

\* the readings of datetime.now(): an earlier and a later one; the wall clock
\* may stand still or step back between two readings
Clock == {0, 1}

\* n_results=3 of the handler
QueryNResults == 3

\* response['text']
Answer == TextB

\* what load_documents finds in data/: one PDF
LoadedBatches == {<<Doc(TextAB, MetaXPdf)>>}

vdb == <<config, collection, ret, before, repeated, written, probe, chunked>>

\* RAGApplication.__init__, lines 64-72: a new VectorDB and the documents of
\* data/ added to it
Startup ==
    /\ ret.op = "init"
    /\ \E documents \in LoadedBatches :
          LET r == add_documents(collection, has_upsert, chunk_size,
                                 chunk_overlap, documents)
          IN  /\ collection' = r.collection
              /\ ret' = Call("add_documents", r.raised, documents, <<>>, 0,
                              NoHits, <<>>, FALSE)
              /\ before' = collection
              /\ repeated' = FALSE
              /\ written' = IF r.raised
                            THEN written
                            ELSE written \cup Submitted(documents, chunk_size,
                                                        chunk_overlap)
    /\ UNCHANGED <<config, probe, chunked, chat>>

\* rag_app exists: the module serves requests
Started == ret.op = "add_documents" /\ ~ret.raised

SetCall(c, call) == [calls EXCEPT ![c] = call]

SetPc(c, pc) ==
    SetCall(c, [found |-> calls[c].found, question |-> calls[c].question,
                user_id |-> calls[c].user_id,
                session_id |-> calls[c].session_id, pc |-> pc])

\* the handler of /api/query, lines 64-76: an empty question is answered 400
\* and the request is over, any other goes to rag_app.query; requests are
\* numbered as they arrive
HandleQuery(c) ==
    /\ Started
    /\ calls[c].pc = "idle"
    /\ c > 1 => calls[c - 1].pc # "idle"
    /\ \E question \in Queries, key \in Keys :
          calls' = IF question = <<>>
                   THEN SetPc(c, "rejected")
                   ELSE SetCall(c, [found |-> NoHits, question |-> question,
                                    user_id |-> key[1], session_id |-> key[2],
                                    pc |-> "save_user"])
    /\ UNCHANGED <<vdb, earlier, chat_messages, loaded>>

\* RAGApplication.query, line 167
SaveUser(c) ==
    /\ calls[c].pc = "save_user"
    /\ \E now \in Clock :
          chat_messages' = save_message(chat_messages, calls[c].user_id,
                                        calls[c].session_id, RoleUser,
                                        calls[c].question, now)
    /\ calls' = SetPc(c, "load")
    /\ UNCHANGED <<vdb, earlier, loaded>>

\* a load_conversation call for a key and what it returned
Load(user_id, session_id) ==
    \E messages \in load_conversation(chat_messages, user_id, session_id) :
        loaded' = [user_id |-> user_id, session_id |-> session_id,
                   called |-> TRUE, messages |-> messages,
                   saved |-> SavedFor(chat_messages, user_id, session_id)]

\* RAGApplication.query, lines 168-169
LoadHistory(c) ==
    /\ calls[c].pc = "load"
    /\ Load(calls[c].user_id, calls[c].session_id)
    /\ calls' = SetPc(c, "search")
    /\ UNCHANGED <<vdb, earlier, chat_messages>>

\* RAGApplication.query, lines 170-171: the search may fail
SearchContext(c) ==
    /\ calls[c].pc = "search"
    /\ \E fails \in BOOLEAN :
          \E r \in search(collection, calls[c].question, QueryNResults, {0}) :
              calls' = IF fails \/ r.raised
                       THEN SetPc(c, "failed")
                       ELSE SetCall(c, [found |-> r.value,
                                        question |-> calls[c].question,
                                        user_id |-> calls[c].user_id,
                                        session_id |-> calls[c].session_id,
                                        pc |-> "invoke"])
    /\ UNCHANGED <<vdb, earlier, chat_messages, loaded>>

\* RAGApplication.query, lines 172-176: the language model may fail
InvokeChain(c) ==
    /\ calls[c].pc = "invoke"
    /\ \E fails \in BOOLEAN :
          calls' = SetPc(c, IF fails THEN "failed" ELSE "save_assistant")
    /\ UNCHANGED <<vdb, earlier, chat_messages, loaded>>

\* RAGApplication.query, lines 177-182: the answer is saved, then the result
\* is built, which raises KeyError for a hit without a filename
SaveAssistant(c) ==
    /\ calls[c].pc = "save_assistant"
    /\ \E now \in Clock :
          chat_messages' = save_message(chat_messages, calls[c].user_id,
                                        calls[c].session_id, RoleAssistant,
                                        Answer, now)
    /\ calls' = SetPc(c, IF \E k \in 1..Len(calls[c].found.metadatas) :
                             ~DictHas(calls[c].found.metadatas[k], "filename")
                         THEN "failed"
                         ELSE "done")
    /\ UNCHANGED <<vdb, earlier, loaded>>

\* the handler of /api/history, lines 101-114
GetHistory ==
    /\ Started
    /\ \E key \in Keys : Load(key[1], key[2])
    /\ UNCHANGED <<vdb, earlier, chat_messages, calls>>

\* the table after an earlier run that served one request of (u1, s1)
EarlierServed ==
    save_message(save_message(<<>>, "u1", "s1", RoleUser, <<"a">>, 0),
                 "u1", "s1", RoleAssistant, Answer, 1)

\* the table after an earlier run whose one request of (u1, s1) failed
EarlierFailed == save_message(<<>>, "u1", "s1", RoleUser, <<"a">>, 0)

\* What chat_history.db holds when the application starts: nothing at the
\* first start, afterwards the rows of the runs before.
PriorTables == {<<>>, EarlierServed, EarlierFailed}

\* RAGApplication.__init__, lines 42-68: CREATE TABLE IF NOT EXISTS keeps the
\* rows of the database file; the VectorDB is new at every start
InitChat ==
    /\ InitVectorDB
    /\ chunk_size = 3
    /\ chunk_overlap = 1
    /\ has_upsert
    /\ chat_messages \in PriorTables
    /\ earlier = chat_messages

NextChat ==
    \/ Startup
    \/ \E c \in 1..MaxCalls :
          \/ HandleQuery(c)
          \/ SaveUser(c)
          \/ LoadHistory(c)
          \/ SearchContext(c)
          \/ InvokeChain(c)
          \/ SaveAssistant(c)

SpecChat == InitChat /\ [][NextChat]_vars

\* the requests to /api/query together with requests to /api/history
NextHistory == NextChat \/ GetHistory

SpecHistory == InitChat /\ [][NextHistory]_vars

(***************************************************************************)
(* chunk_text on its own: one text and the chunks made of it, under each   *)
(* configuration of chunk_size and chunk_overlap                           *)
(***************************************************************************)

\* longest text given to chunk_text
MaxTextLen == 4

Texts ==
    UNION {[1..n -> Range(Alphabet)] : n \in 0..MaxTextLen}

InitChunk ==
    /\ Init
    /\ has_upsert

ChunkText ==
    /\ ~chunked.called
    /\ \E text \in Texts :
          LET r == chunk_text(text, chunk_size, chunk_overlap)
          IN  chunked' = [text |-> text, raised |-> r.raised,
                          chunks |-> r.chunks, called |-> TRUE]
    /\ UNCHANGED <<config, collection, ret, before, repeated, written, probe,
                   chat>>

NextChunk == ChunkText

SpecChunk == InitChunk /\ [][NextChunk]_vars

(***************************************************************************)
(* Properties                                                              *)
(***************************************************************************)

LastTriples == AllTriples(ret.documents, chunk_size, chunk_overlap)

LastBatchRaises == BatchRaises(ret.documents, chunk_size, chunk_overlap)

\* C1 (idempotent ingestion): when add_documents([D]) is called a second time
\* with the same D, the set of record ids and the record count of the index
\* are what they were after the first call.
C1_IdempotentIngestion ==
    (ret.op = "add_documents" /\ repeated /\ Len(ret.documents) = 1)
        => /\ Ids(collection) = Ids(before)
           /\ Cardinality(collection) = Cardinality(before)

\* a second add_documents([D]) returned, for a D whose chunks are in the index
C1_Witness ==
    /\ ret.op = "add_documents"
    /\ repeated
    /\ ~ret.raised
    /\ Len(ret.documents) = 1
    /\ LastTriples # <<>>
    /\ TripleIds(LastTriples) \subseteq Ids(collection)

\* C2 (id non-collision): the id is a function of the filename (the empty
\* string when the metadata has none), the ordinal, the chunk length and the
\* MD5 of the chunk, and two chunks get the same id only if they agree on
\* filename, ordinal, length and text.
C2_IdNonCollision ==
    probe.op = "ids" =>
        /\ ( /\ KeyFilename(probe.a) = KeyFilename(probe.b)
             /\ probe.a.ordinal = probe.b.ordinal
             /\ Len(probe.a.chunk) = Len(probe.b.chunk)
             /\ MD5Hex(probe.a.chunk) = MD5Hex(probe.b.chunk) )
           => probe.id_a = probe.id_b
        /\ probe.id_a = probe.id_b
           => /\ KeyFilename(probe.a) = KeyFilename(probe.b)
              /\ probe.a.ordinal = probe.b.ordinal
              /\ Len(probe.a.chunk) = Len(probe.b.chunk)
              /\ probe.a.chunk = probe.b.chunk

\* two different keys with one id: one without a filename, one with the
\* filename ""
C2_Witness ==
    /\ probe.op = "ids"
    /\ probe.id_a = probe.id_b
    /\ ~DictHas(probe.a.metadata, "filename")
    /\ DictHas(probe.b.metadata, "filename")

\* the records of a filename at a chunk ordinal
RecordsAt(coll, filename, i) ==
    {r \in coll : /\ DictGet(r.metadata, "filename", <<>>) = filename
                  /\ r.id = ChunkId(r.metadata, i, r.document)}

\* C3 (update in place): after add_documents([D']) returned, the index holds
\* no more records for the filename of D' at any ordinal that already had a
\* record than it held before the call.
C3_UpdateInPlace ==
    (ret.op = "add_documents" /\ ~ret.raised /\ Len(ret.documents) = 1)
        => LET f == DictGet(DocMetadata(ret.documents[1]), "filename", <<>>)
           IN  \A i \in 0..Cardinality(collection) :
                   RecordsAt(before, f, i) # {}
                       => Cardinality(RecordsAt(collection, f, i))
                              <= Cardinality(RecordsAt(before, f, i))

\* C4 (batch atomicity): after an add_documents call either the call returned
\* and every chunk it submitted is a record of the index, or it raised and
\* the index is as it was before the call.
C4_BatchAtomicity ==
    ret.op = "add_documents" =>
        \/ /\ ~ret.raised
           /\ Range(LastTriples) \subseteq collection
        \/ /\ ret.raised
           /\ collection = before

\* a call with two documents raised after the first document was chunked
C4_Witness ==
    /\ ret.op = "add_documents"
    /\ ret.raised
    /\ Len(ret.documents) = 2
    /\ ~DocRaises(ret.documents[1], chunk_size, chunk_overlap)
    /\ TriplesMemo[chunk_size][chunk_overlap][ret.documents[1]] # <<>>
    /\ collection = before

\* ids of a search result or an export
ValueIds(value) == Range(value.ids)

ExportIds(value) == {value[k].id : k \in 1..Len(value)}

\* C5 (write-then-read visibility): every chunk submitted by an add_documents
\* call that returned is a record of the index from then on, and the reads
\* that return see it: is_empty returns False, export_all_documents lists it,
\* and a search that asks for at least as many results as there are records
\* returns it.
C5_WriteThenRead ==
    /\ \A w \in written :
          \E r \in collection : r.id = w[1] /\ r.document = w[2]
    /\ (ret.op = "is_empty" /\ ~ret.raised /\ written # {})
          => ret.empty = FALSE
    /\ (ret.op = "export_all_documents" /\ ~ret.raised)
          => \A w \in written :
                \E k \in 1..Len(ret.exported) :
                    /\ ret.exported[k].id = w[1]
                    /\ ret.exported[k].content = w[2]
    /\ (ret.op = "search" /\ ~ret.raised
            /\ ret.n_results >= Cardinality(collection))
          => \A w \in written : w[1] \in ValueIds(ret.found)

\* a search after two add_documents calls returned the chunks of both
C5_Witness ==
    /\ ret.op = "search"
    /\ ~ret.raised
    /\ Cardinality(written) = 2
    /\ \A w \in written : w[1] \in ValueIds(ret.found)

\* C6 (search result bound): a search with n_results >= 1 returns, with at
\* most n_results hits and at most as many hits as the index has records
\* (none on the empty index), the four lists of equal length.
C6_SearchBound ==
    (ret.op = "search" /\ ret.n_results >= 1)
        => /\ ~ret.raised
           /\ Len(ret.found.ids) <= ret.n_results
           /\ Len(ret.found.ids) <= Cardinality(collection)
           /\ Len(ret.found.documents) = Len(ret.found.ids)
           /\ Len(ret.found.metadatas) = Len(ret.found.ids)
           /\ Len(ret.found.distances) = Len(ret.found.ids)

\* a search that asked for more results than the index has records
C6_Witness ==
    /\ ret.op = "search"
    /\ ret.n_results = 2
    /\ Cardinality(collection) = 1
    /\ Len(ret.found.ids) = 1

\* C7 (export coverage): after add_documents on an empty index with
\* documents that chunk into M chunks, export_all_documents returns exactly M
\* entries, one per record; stated for documents that carry metadata, which
\* leaves the case of two documents that share filename and content.
C7_ExportCoverage ==
    ( /\ ret.op = "add_documents"
      /\ before = {}
      /\ ~LastBatchRaises
      /\ ~HasEmptyMetadata(LastTriples) )
        => \A e \in export_all_documents(collection) :
               /\ ~e.raised
               /\ Len(e.value) = Len(LastTriples)
               /\ ExportIds(e.value) = Ids(collection)

\* C8 (is_empty): is_empty returns True exactly when the index holds no
\* record, on the count() path and on the fallback path.
C8_IsEmptyIff ==
    ret.op = "is_empty"
        => /\ ~ret.raised
           /\ ret.empty = (collection = {})

\* the documents of a batch that have content
RECURSIVE WithContent(_)
WithContent(documents) ==
    IF documents = <<>>
    THEN <<>>
    ELSE (IF Head(documents).has_content THEN <<Head(documents)>> ELSE <<>>)
         \o WithContent(Tail(documents))

\* C9 (document-granular failure tolerance): when a document of the batch has
\* no content and the other documents make a request the index accepts, the
\* call returns and the chunks of the other documents are records of the index.
C9_SkipFailingDocument ==
    LET rest == AllTriples(WithContent(ret.documents), chunk_size, chunk_overlap)
    IN  ( /\ ret.op = "add_documents"
          /\ \E k \in 1..Len(ret.documents) : ~ret.documents[k].has_content
          /\ ~ChunkTextRaises(chunk_size, chunk_overlap)
          /\ rest # <<>>
          /\ ~RequestRejected(rest)
          /\ (has_upsert \/ TripleIds(rest) \cap Ids(before) = {}) )
        => /\ ~ret.raised
           /\ Range(rest) \subseteq collection

\* C10 (non-positive n_results): a search with n_results <= 0 raises; it
\* returns no result.
C10_NonPositiveNResults ==
    (ret.op = "search" /\ ret.n_results <= 0) => ret.raised

\* a search with n_results <= 0 on an index that holds records
C10_Witness ==
    /\ ret.op = "search"
    /\ ret.n_results <= 0
    /\ ret.raised
    /\ collection # {}

\* C11 (empty query): a search with an empty query text is rejected with an
\* error; it never returns a result, which only the embedding of the query
\* and the index query behind it produce.
C11_EmptyQueryRejected ==
    (ret.op = "search" /\ ret.query = <<>>) => ret.raised

\* C12 (short-input chunking): under a configuration the splitter accepts,
\* a text no longer than chunk_size comes back as exactly one chunk equal to
\* the text, character for character, and the empty text as no chunk.
C12_ShortInput ==
    ( /\ chunked.called
      /\ ~ChunkTextRaises(chunk_size, chunk_overlap)
      /\ Len(chunked.text) <= chunk_size )
        => /\ ~chunked.raised
           /\ chunked.chunks = IF chunked.text = <<>>
                               THEN <<>>
                               ELSE <<chunked.text>>

\* the last k characters of s, all of s when it is shorter
ChunkTail(s, k) == DropTo(s, Len(s) - Min(k, Len(s)) + 1)

\* the first k characters of s, all of s when it is shorter
ChunkHead(s, k) == SubSeq(s, 1, Min(k, Len(s)))

\* C13 (overlap invariant): when chunk_text splits a text into more than one
\* chunk, the last chunk_overlap characters of each chunk are the first
\* chunk_overlap characters of the chunk after it.
C13_Overlap ==
    (chunked.called /\ ~chunked.raised /\ Len(chunked.chunks) > 1)
        => \A i \in 1..(Len(chunked.chunks) - 1) :
               ChunkTail(chunked.chunks[i], chunk_overlap)
                   = ChunkHead(chunked.chunks[i + 1], chunk_overlap)

\* C15 (records are never removed): no call removes an id from the index;
\* the set of record ids after a step contains the set before it.
C15_NeverRemoved ==
    [][Ids(collection) \subseteq Ids(collection')]_vars

\* a file was ingested again with changed content and a search returned the
\* record of its old chunk beside the record of the new one
C15_Witness ==
    /\ ret.op = "search"
    /\ ~ret.raised
    /\ \E r1, r2 \in collection :
          /\ r1.id # r2.id
          /\ \E i \in 0..Cardinality(collection) :
                {r1, r2} \subseteq
                    RecordsAt(collection,
                              DictGet(r1.metadata, "filename", <<>>), i)
          /\ {r1.id, r2.id} \subseteq ValueIds(ret.found)

\* C14 (conversation order): load_conversation for a key returns exactly the
\* messages saved for that key, in the order of their saving, whatever the
\* clock read at the saves; stated here for the tables in which no two rows
\* of the key carry the same timestamp, which leaves the clock stepping back.
C14_LoadInSaveOrder ==
    ( /\ loaded.called
      /\ \A j, k \in Matching(chat_messages, loaded.user_id, loaded.session_id) :
            j # k => chat_messages[j].timestamp # chat_messages[k].timestamp )
        => loaded.messages = loaded.saved

\* the number of rows of a key with a role
CountRole(table, key, role) ==
    Cardinality({k \in Matching(table, key[1], key[2]) : table[k].role = role})

\* the requests of a key that stand at one of the given places
CallsAt(key, pcs) ==
    {c \in 1..MaxCalls : /\ calls[c].user_id = key[1]
                         /\ calls[c].session_id = key[2]
                         /\ calls[c].pc \in pcs}

\* C16 (turn persistence): in every state and for every key, the table holds
\* the rows it held at start, unchanged, and beyond them one user message per
\* request of that key that passed line 167, whether it went on, failed or
\* finished, and one assistant message per request of that key that
\* finished; so a key never has more assistant than user messages, a failed
\* request has left its question and no answer, and no request has written
\* under another key.
C16_TurnPersistence ==
    \A key \in Keys \cup {<<chat_messages[k].user_id, chat_messages[k].session_id>> :
                              k \in 1..Len(chat_messages)} :
        /\ CountRole(chat_messages, key, RoleAssistant)
               <= CountRole(chat_messages, key, RoleUser)
        /\ CountRole(chat_messages, key, RoleUser)
               = CountRole(earlier, key, RoleUser)
                 + Cardinality(CallsAt(key, {"load", "search", "invoke",
                                             "save_assistant", "done", "failed"}))
        /\ CountRole(chat_messages, key, RoleAssistant)
               = CountRole(earlier, key, RoleAssistant)
                 + Cardinality(CallsAt(key, {"done"}))
        /\ SubSeq(chat_messages, 1, Len(earlier)) = earlier

\* two concurrent requests of a key that has rows of an earlier run, one
\* failed and one finished: two more questions and one more answer
C16_Witness ==
    \E key \in Keys :
        /\ CountRole(earlier, key, RoleUser) > 0
        /\ CallsAt(key, {"failed"}) # {}
        /\ CallsAt(key, {"done"}) # {}
        /\ CountRole(chat_messages, key, RoleUser)
               = CountRole(earlier, key, RoleUser) + 2
        /\ CountRole(chat_messages, key, RoleAssistant)
               = CountRole(earlier, key, RoleAssistant) + 1

====
